---- MODULE Spec2Model ----
(***************************************************************************)
(* Model of the web-aware RAG engine: the ingest entrypoint                *)
(* (app/main.py ingest_url), the Document table (app/models.py), the RQ    *)
(* job queue and the background job (app/worker.py process_url_job).       *)
(*                                                                         *)
(* API requests are served by several processes (the provider state is     *)
(* kept in Redis for exactly that reason, app/services/query.py:12), so    *)
(* two ingest_url calls interleave at their database and Redis calls. One  *)
(* action of the model is one such call together with the local code       *)
(* around it. A commit writes the columns the handler assigned, whatever   *)
(* the row holds by then (the ORM's UPDATE ... WHERE id = :id).            *)
(*                                                                         *)
(* The Qdrant collection is the sequence of the payloads upserted so far   *)
(* (app/services/vector_store.py add_chunks). chunk_text                   *)
(* (app/services/ingestion.py) is modelled on character sequences and has  *)
(* a specification of its own, ChunkSpec, that calls it on every input of  *)
(* ChunkInputs.                                                            *)
(***************************************************************************)
EXTENDS Integers, Sequences, FiniteSets, TLC

VARIABLES
    documents,   \* the documents table: row i is the Document with id i
    job_queue,   \* the RQ queue 'default': jobs (doc_id, url), FIFO
    hpc,         \* per API process: position inside ingest_url
    hurl,        \* per API process: the local `url`
    hdoc,        \* per API process: id of `existing` / `document`
    resp,        \* the response leaving the server in this step, by process
    wpc,         \* per worker: position inside process_url_job
    wjob,        \* per worker: the job it executes
    wres,        \* per worker: title, chunks and raised error of the run
    points,      \* the Qdrant collection: the payloads, in order of insertion
    chunker,     \* a call of chunk_text on its own: arguments and result
    provider_config, \* the Redis key current_llm_provider
    qs,          \* per API process: _provider and _last_provider of query_service
    out          \* the response of /provider, /query or /documents in this step

vars == <<documents, job_queue, hpc, hurl, hdoc, resp, wpc, wjob, wres, points,
         chunker, provider_config, qs, out>>

(***************************************************************************)
(* Bounds                                                                  *)
(***************************************************************************)
\* Jobs queued plus ingest_url calls in flight; new calls wait beyond it.
MaxQueue == 2
\* Points the collection holds; new calls wait when a further run could
\* exceed it.
MaxPoints == 4
\* Rows of a documents table handed to list_documents on its own.
MaxDocs == 3
\* Largest limit and offset handed to list_documents on its own.
MaxLimit == 2
\* Words of a text handed to chunk_text on its own.
MaxWords == 6
\* Largest chunk_size handed to chunk_text on its own; overlap goes one beyond.
MaxSize == 3

\* settings.CHUNK_SIZE and settings.CHUNK_OVERLAP.
CHUNK_SIZE == 500
CHUNK_OVERLAP == 50
\* fetch_url: the least number of characters of a cleaned text.
MIN_CHARS == 100
\* The cleaned texts of the pages a fetch returns: characters and words.
Pages == {[chars |-> 10, words |-> 2], [chars |-> 99, words |-> 20],
          [chars |-> 100, words |-> 20], [chars |-> 3299, words |-> 550]}
\* Words of the text extracted from a fetched page.
PageWords == {pg.words : pg \in {q \in Pages : q.chars >= MIN_CHARS}}

Procs == {"api1", "api2"}
Workers == {"rq1", "rq2"}

\* A URL is <<scheme, rest>>; str(url) differs when either part differs.
Urls == {<<"http", "a">>, <<"ftp", "a">>}
NoUrl == <<"", "">>
NULL == "NULL"
\* str(url)
UrlText(url) == url[1] \o "://" \o url[2]
\* What soup.title.string gives for a page: its text, or None when the page
\* has no title element or an empty one, as the shortest page taken has.
PageTitle(pg) == IF pg.chars = MIN_CHARS THEN NULL ELSE "T"
\* The titles fetch_url returns.
Titles == {"T"} \cup {UrlText(u) : u \in Urls}

\* The messages raised inside the job body (ingestion.py, rq's timeout).
ExtractErrors == {"Insufficient content extracted"}
\* The other messages fetch_url raises: timeout, redirects, status or
\* connection, content type, parser.
FetchErrors == {"Request timeout while fetching", "Too many redirects",
                "Failed to fetch URL", "Invalid content type",
                "Failed to parse HTML"}
IndexErrors == {"vector store error"}
TimeoutError == "Task exceeded maximum timeout value (600 seconds)"
QueueErrorMessage == "Failed to queue job"

(***************************************************************************)
(* models.py: Document                                                     *)
(***************************************************************************)
\* Document(url=url, status="pending") with the column defaults.
Document(url) ==
    [url |-> url, title |-> NULL, status |-> "pending",
     error_message |-> NULL, chunk_count |-> 0]

DocIds == 1..Len(documents)

\* db.query(Document).filter(Document.url == url).first(): the id, or 0.
FindByUrl(url) ==
    IF \E i \in DocIds : documents[i].url = url
    THEN CHOOSE i \in DocIds : documents[i].url = url
    ELSE 0

\* The table without the unique index on url.
UniqueViolation_NoIndex(url) == FALSE

\* unique=True on Document.url: the INSERT is refused when the URL is there.
UniqueViolation(url) == \E i \in DocIds : documents[i].url = url

\* url.startswith(('http://', 'https://'))
ValidScheme(url) == url[1] \in {"http", "https"}

\* IngestURLRequest.url: HttpUrl: the request body is parsed before the
\* handler runs, and a URL of another scheme is refused there.
HttpUrl(url) == url[1] \in {"http", "https"}

\* A handler that takes every URL.
SchemeError_None(url) == 0

\* The status code a URL is refused with, 0 when it is taken: 422 from the
\* request model, 400 from the check of lines 148-153.
SchemeError(url) ==
    IF ~HttpUrl(url) THEN 422
    ELSE IF ~ValidScheme(url) THEN 400
    ELSE 0

(***************************************************************************)
(* schemas.py: IngestURLResponse, and the HTTP errors of ingest_url        *)
(***************************************************************************)
NoResp == [code |-> 0, job_id |-> 0, url |-> NoUrl, status |-> "", message |-> ""]

IngestURLResponse(job_id, url, status, message) ==
    [code |-> 202, job_id |-> job_id, url |-> url, status |-> status,
     message |-> message]

HTTPException(code, detail) ==
    [code |-> code, job_id |-> 0, url |-> NoUrl, status |-> "", message |-> detail]

Job(doc_id, url) == [doc_id |-> doc_id, url |-> url]
NoJob == [doc_id |-> 0, url |-> NoUrl]
NoRes == [title |-> NULL, chars |-> -1, words |-> 0, chunks |-> 0,
          chunk_count |-> 0, error |-> NULL]

\* No response leaves the server.
Silent == [q \in Procs |-> NoResp]

InFlight == Cardinality({p \in Procs : hpc[p] # "idle"})

(***************************************************************************)
(* config.py, services/llm_providers.py, services/query.py                 *)
(***************************************************************************)
\* The fields of Settings; reading any other attribute of `settings` raises
\* AttributeError.
SettingsFields ==
    {"DATABASE_URL", "REDIS_HOST", "REDIS_PORT", "REDIS_DB", "QDRANT_HOST",
     "QDRANT_PORT", "QDRANT_COLLECTION_NAME", "OLLAMA_BASE_URL", "OLLAMA_MODEL",
     "EMBEDDING_MODEL", "CHUNK_SIZE", "CHUNK_OVERLAP", "TOP_K_RESULTS"}

\* settings.<name> for the fields the provider code reads.
Setting(name) ==
    CASE name = "OLLAMA_BASE_URL" -> "http://localhost:11434"
      [] name = "OLLAMA_MODEL" -> "llama2"
      [] OTHER -> NULL

AttributeError == "'Settings' object has no attribute"

\* The value of the Redis key when it is not set.
NoConfig == [provider |-> NULL, ollama_base_url |-> NULL, ollama_model |-> NULL,
             openai_api_key |-> NULL, openai_model |-> NULL,
             gemini_api_key |-> NULL, gemini_model |-> NULL]

\* QueryService.__init__: no provider, no last provider.
NoService == [provider |-> NULL, last_provider |-> NULL]

NoOutput == [proc |-> "", op |-> "", code |-> 0, body |-> <<>>]

(***************************************************************************)
(* services/ingestion.py: chunk_text                                       *)
(***************************************************************************)
\* A text is a sequence of character codes: 0 is a blank, k > 0 a letter.
SPACE == 0

Min(a, b) == IF a < b THEN a ELSE b

\* str.split(): the maximal runs of non-blank characters, in order. `word`
\* is the run read so far, k the position of the scan.
RECURSIVE SplitFrom(_, _, _)
SplitFrom(text, k, word) ==
    IF k > Len(text)
    THEN IF word = <<>> THEN <<>> ELSE <<word>>
    ELSE IF text[k] = SPACE
    THEN IF word = <<>>
         THEN SplitFrom(text, k + 1, <<>>)
         ELSE <<word>> \o SplitFrom(text, k + 1, <<>>)
    ELSE SplitFrom(text, k + 1, Append(word, text[k]))

split(text) == SplitFrom(text, 1, <<>>)

\* ' '.join(words)
RECURSIVE join(_)
join(words) ==
    IF words = <<>> THEN <<>>
    ELSE IF Len(words) = 1 THEN words[1]
    ELSE words[1] \o <<SPACE>> \o join(Tail(words))

\* words[i:j]: 0-based, j exclusive and clipped to the length.
Slice(words, i, j) == SubSeq(words, i + 1, Min(j, Len(words)))

\* The loop of chunk_text on n words, from index i on: the slice [i, i+size)
\* is appended when it is not empty, and the loop breaks once the slice
\* reaches the end. The result is the list of [from, to) of the chunks.
RECURSIVE Windows(_, _, _, _)
Windows(n, i, chunk_size, step) ==
    IF i >= n THEN <<>>
    ELSE LET to == Min(i + chunk_size, n)
             chunk == IF to > i THEN << <<i, to>> >> ELSE <<>>
         IN  IF i + chunk_size >= n
             THEN chunk
             ELSE chunk \o Windows(n, i + step, chunk_size, step)

\* chunk_text with the overlap ignored: the windows step by chunk_size.
chunk_words_NoOverlap(n, chunk_size, overlap) ==
    IF n = 0
    THEN [error |-> "No words found in text", windows |-> <<>>]
    ELSE IF chunk_size - overlap = 0
    THEN [error |-> "range() arg 3 must not be zero", windows |-> <<>>]
    ELSE IF chunk_size - overlap < 0
    THEN [error |-> NULL, windows |-> <<>>]
    ELSE [error |-> NULL, windows |-> Windows(n, 0, chunk_size, chunk_size)]

\* chunk_text keeping the windows of chunk_size words only.
chunk_words_DropsTail(n, chunk_size, overlap) ==
    IF n = 0
    THEN [error |-> "No words found in text", windows |-> <<>>]
    ELSE IF chunk_size - overlap = 0
    THEN [error |-> "range() arg 3 must not be zero", windows |-> <<>>]
    ELSE IF chunk_size - overlap < 0
    THEN [error |-> NULL, windows |-> <<>>]
    ELSE LET Full(win) == win[2] - win[1] = chunk_size IN
         [error |-> NULL,
          windows |-> SelectSeq(Windows(n, 0, chunk_size, chunk_size - overlap),
                                Full)]

\* chunk_text without the check of len(words): no words, no chunks.
chunk_words_NoEmptyCheck(n, chunk_size, overlap) ==
    IF chunk_size - overlap = 0
    THEN [error |-> "range() arg 3 must not be zero", windows |-> <<>>]
    ELSE IF chunk_size - overlap < 0
    THEN [error |-> NULL, windows |-> <<>>]
    ELSE [error |-> NULL,
          windows |-> Windows(n, 0, chunk_size, chunk_size - overlap)]

\* chunk_text on the n words of the text: it raises when there is no word
\* and when range() gets the step 0; with a negative step range() is empty
\* and the empty list is returned.
chunk_words(n, chunk_size, overlap) ==
    IF n = 0
    THEN [error |-> "No words found in text", windows |-> <<>>]
    ELSE IF chunk_size - overlap = 0
    THEN [error |-> "range() arg 3 must not be zero", windows |-> <<>>]
    ELSE IF chunk_size - overlap < 0
    THEN [error |-> NULL, windows |-> <<>>]
    ELSE [error |-> NULL,
          windows |-> Windows(n, 0, chunk_size, chunk_size - overlap)]

\* chunk_text(text, chunk_size, overlap): the raised message or the chunks.
chunk_text(text, chunk_size, overlap) ==
    LET words == split(text)
        r == chunk_words(Len(words), chunk_size, overlap)
    IN  [error |-> r.error,
         chunks |-> [k \in 1..Len(r.windows) |->
                        join(Slice(words, r.windows[k][1], r.windows[k][2]))]]

\* The inputs of a call of chunk_text on its own: n words, the k-th made of
\* the letter k (twice when k is even), `sep` blanks between two words and
\* `pad` blanks at either end.
Word(k) == IF k % 2 = 0 THEN <<k, k>> ELSE <<k>>

Blanks(m) == [j \in 1..m |-> SPACE]

RECURSIVE Spread(_, _)
Spread(n, sep) ==
    IF n = 0 THEN <<>>
    ELSE IF n = 1 THEN Word(1)
    ELSE Spread(n - 1, sep) \o Blanks(sep) \o Word(n)

Text(n, sep, pad) == Blanks(pad) \o Spread(n, sep) \o Blanks(pad)

NoOut == [error |-> NULL, chunks |-> <<>>]

NoCall == [text |-> <<>>, chunk_size |-> 0, overlap |-> 0, done |-> FALSE,
           out |-> NoOut]

ChunkInputs ==
    {[text |-> Text(n, sep, pad), chunk_size |-> s, overlap |-> o,
      done |-> FALSE, out |-> NoOut] :
        n \in 0..MaxWords, sep \in 1..2, pad \in 0..1,
        s \in 1..MaxSize, o \in 0..(MaxSize + 1)}

\* The most points one run of the job writes.
MaxPerRun ==
    CHOOSE m \in 0..MaxPoints :
        /\ \A n \in PageWords :
              Len(chunk_words(n, CHUNK_SIZE, CHUNK_OVERLAP).windows) <= m
        /\ \E n \in PageWords :
              Len(chunk_words(n, CHUNK_SIZE, CHUNK_OVERLAP).windows) = m

\* The runs still to come: jobs queued, calls in flight, and workers that
\* have not yet written their points.
Backlog ==
    Len(job_queue) + InFlight
      + Cardinality({w \in Workers : wpc[w] \in {"start", "process_url", "add_chunks"}})

\* No request in flight, no job queued or running, nothing indexed.
Quiet ==
    /\ job_queue = <<>>
    /\ hpc = [p \in Procs |-> "idle"]
    /\ hurl = [p \in Procs |-> NoUrl]
    /\ hdoc = [p \in Procs |-> 0]
    /\ resp = Silent
    /\ wpc = [w \in Workers |-> "idle"]
    /\ wjob = [w \in Workers |-> NoJob]
    /\ wres = [w \in Workers |-> NoRes]
    /\ points = <<>>

Registry ==
    /\ documents = <<>>
    /\ Quiet

\* No switch yet: the key is not set, no process has built a provider.
Providers ==
    /\ provider_config = NoConfig
    /\ qs = [p \in Procs |-> NoService]
    /\ out = NoOutput

Init ==
    /\ Registry
    /\ chunker = NoCall
    /\ Providers

\* A call of chunk_text on its own, for every input of ChunkInputs.
ChunkInit ==
    /\ Registry
    /\ chunker \in ChunkInputs
    /\ Providers

(***************************************************************************)
(* main.py: ingest_url                                                     *)
(***************************************************************************)
\* The handler returns or raises: its locals are gone, the response is out.
Finish(p, r) ==
    /\ hpc' = [hpc EXCEPT ![p] = "idle"]
    /\ hurl' = [hurl EXCEPT ![p] = NoUrl]
    /\ hdoc' = [hdoc EXCEPT ![p] = 0]
    /\ resp' = [q \in Procs |-> IF q = p THEN r ELSE NoResp]

\* The lookup with a pending Document taken for one to retry.
IngestCheck_PendingRetried(p, url) ==
    /\ hpc[p] = "idle"
    /\ Len(job_queue) + InFlight < MaxQueue
    /\ Len(points) + MaxPerRun * (Backlog + 1) <= MaxPoints
    /\ UNCHANGED <<documents, job_queue, wpc, wjob, wres>>
    /\ IF SchemeError(url) # 0
       THEN Finish(p, HTTPException(SchemeError(url), "Invalid URL scheme"))
       ELSE LET e == FindByUrl(url) IN
            IF e # 0 /\ documents[e].status = "completed"
            THEN Finish(p, IngestURLResponse(e, url, documents[e].status,
                                             "URL already processed"))
            ELSE IF e # 0 /\ documents[e].status \in {"processing"}
            THEN Finish(p, IngestURLResponse(e, url, documents[e].status,
                                             "URL is currently being processed"))
            ELSE /\ hpc' = [hpc EXCEPT ![p] =
                              IF e # 0 /\ documents[e].status \in {"failed", "pending"}
                              THEN "retry_commit" ELSE "create"]
                 /\ hurl' = [hurl EXCEPT ![p] = url]
                 /\ hdoc' = [hdoc EXCEPT ![p] = e]
                 /\ resp' = Silent
    /\ UNCHANGED <<points, chunker, provider_config, qs>>
    /\ out' = NoOutput

\* Lines 146-172 and 193: the scheme check and the lookup of `existing`.
IngestCheck(p, url) ==
    /\ hpc[p] = "idle"
    /\ Len(job_queue) + InFlight < MaxQueue
    /\ Len(points) + MaxPerRun * (Backlog + 1) <= MaxPoints
    /\ UNCHANGED <<documents, job_queue, wpc, wjob, wres>>
    /\ IF SchemeError(url) # 0
       THEN Finish(p, HTTPException(SchemeError(url), "Invalid URL scheme"))
       ELSE LET e == FindByUrl(url) IN
            IF e # 0 /\ documents[e].status = "completed"
            THEN Finish(p, IngestURLResponse(e, url, documents[e].status,
                                             "URL already processed"))
            ELSE IF e # 0 /\ documents[e].status \in {"pending", "processing"}
            THEN Finish(p, IngestURLResponse(e, url, documents[e].status,
                                             "URL is currently being processed"))
            ELSE /\ hpc' = [hpc EXCEPT ![p] =
                              IF e # 0 /\ documents[e].status = "failed"
                              THEN "retry_commit" ELSE "create"]
                 /\ hurl' = [hurl EXCEPT ![p] = url]
                 /\ hdoc' = [hdoc EXCEPT ![p] = e]
                 /\ resp' = Silent
    /\ UNCHANGED <<points, chunker, provider_config, qs>>
    /\ out' = NoOutput

\* The retry commit without `existing.error_message = None`.
IngestRetryCommit_KeepsError(p) ==
    /\ hpc[p] = "retry_commit"
    /\ documents' = [documents EXCEPT ![hdoc[p]].status = "pending"]
    /\ hpc' = [hpc EXCEPT ![p] = "retry_enqueue"]
    /\ UNCHANGED <<job_queue, hurl, hdoc, wpc, wjob, wres>>
    /\ resp' = Silent
    /\ UNCHANGED <<points, chunker, provider_config, qs>>
    /\ out' = NoOutput

\* Lines 174-176: existing.status = "pending"; error_message = None; commit.
IngestRetryCommit(p) ==
    /\ hpc[p] = "retry_commit"
    /\ documents' = [documents EXCEPT ![hdoc[p]].status = "pending",
                                      ![hdoc[p]].error_message = NULL]
    /\ hpc' = [hpc EXCEPT ![p] = "retry_enqueue"]
    /\ UNCHANGED <<job_queue, hurl, hdoc, wpc, wjob, wres>>
    /\ resp' = Silent
    /\ UNCHANGED <<points, chunker, provider_config, qs>>
    /\ out' = NoOutput

\* Lines 178-191: enqueue and answer. The call is not inside a try: when
\* Redis refuses it the exception leaves the handler (a 500 response).
IngestRetryEnqueue(p) ==
    /\ hpc[p] = "retry_enqueue"
    /\ \/ /\ job_queue' = Append(job_queue, Job(hdoc[p], hurl[p]))
          /\ Finish(p, IngestURLResponse(hdoc[p], hurl[p], "pending",
                                         "Retrying failed URL"))
       \/ /\ job_queue' = job_queue
          /\ Finish(p, HTTPException(500, "Internal Server Error"))
    /\ UNCHANGED <<documents, wpc, wjob, wres>>
    /\ UNCHANGED <<points, chunker, provider_config, qs>>
    /\ out' = NoOutput

\* Lines 194-201: the INSERT, refused by the unique index on url.
IngestCreate(p) ==
    /\ hpc[p] = "create"
    /\ IF UniqueViolation(hurl[p])
       THEN /\ documents' = documents
            /\ Finish(p, HTTPException(500, "Failed to create document record"))
       ELSE /\ documents' = Append(documents, Document(hurl[p]))
            /\ hpc' = [hpc EXCEPT ![p] = "enqueue"]
            /\ hdoc' = [hdoc EXCEPT ![p] = Len(documents) + 1]
            /\ UNCHANGED hurl
            /\ resp' = Silent
    /\ UNCHANGED <<job_queue, wpc, wjob, wres>>
    /\ UNCHANGED <<points, chunker, provider_config, qs>>
    /\ out' = NoOutput

\* The enqueue of the new document's job issued twice.
IngestEnqueue_Twice(p) ==
    /\ hpc[p] = "enqueue"
    /\ \/ /\ job_queue' = Append(Append(job_queue, Job(hdoc[p], hurl[p])),
                                  Job(hdoc[p], hurl[p]))
          /\ Finish(p, IngestURLResponse(hdoc[p], hurl[p], "pending",
                                         "URL submitted for processing"))
       \/ /\ job_queue' = job_queue
          /\ hpc' = [hpc EXCEPT ![p] = "enqueue_failed"]
          /\ UNCHANGED <<hurl, hdoc>>
          /\ resp' = Silent
    /\ UNCHANGED <<documents, wpc, wjob, wres>>
    /\ UNCHANGED <<points, chunker, provider_config, qs>>
    /\ out' = NoOutput

\* Lines 204-213 and 221-226: enqueue of the new document's job.
IngestEnqueue(p) ==
    /\ hpc[p] = "enqueue"
    /\ \/ /\ job_queue' = Append(job_queue, Job(hdoc[p], hurl[p]))
          /\ Finish(p, IngestURLResponse(hdoc[p], hurl[p], "pending",
                                         "URL submitted for processing"))
       \/ /\ job_queue' = job_queue
          /\ hpc' = [hpc EXCEPT ![p] = "enqueue_failed"]
          /\ UNCHANGED <<hurl, hdoc>>
          /\ resp' = Silent
    /\ UNCHANGED <<documents, wpc, wjob, wres>>
    /\ UNCHANGED <<points, chunker, provider_config, qs>>
    /\ out' = NoOutput

\* Lines 214-219: the except branch of the enqueue.
IngestEnqueueFailed(p) ==
    /\ hpc[p] = "enqueue_failed"
    /\ documents' = [documents EXCEPT ![hdoc[p]].status = "failed",
                                      ![hdoc[p]].error_message = QueueErrorMessage]
    /\ Finish(p, HTTPException(500, "Failed to queue processing job"))
    /\ UNCHANGED <<job_queue, wpc, wjob, wres>>
    /\ UNCHANGED <<points, chunker, provider_config, qs>>
    /\ out' = NoOutput

ingest_url(p) ==
    \/ \E url \in Urls : IngestCheck(p, url)
    \/ IngestRetryCommit(p)
    \/ IngestRetryEnqueue(p)
    \/ IngestCreate(p)
    \/ IngestEnqueue(p)
    \/ IngestEnqueueFailed(p)

(***************************************************************************)
(* worker.py: the rq worker and process_url_job                            *)
(***************************************************************************)
\* Worker.work(): the worker takes the oldest job of the queue.
WorkerDequeue(w) ==
    /\ wpc[w] = "idle"
    /\ job_queue # <<>>
    /\ wjob' = [wjob EXCEPT ![w] = Head(job_queue)]
    /\ job_queue' = Tail(job_queue)
    /\ wpc' = [wpc EXCEPT ![w] = "start"]
    /\ wres' = [wres EXCEPT ![w] = NoRes]
    /\ UNCHANGED <<documents, hpc, hurl, hdoc>>
    /\ resp' = Silent
    /\ UNCHANGED <<points, chunker, provider_config, qs>>
    /\ out' = NoOutput

\* Lines 20-26: look the document up, set it to processing, commit.
JobMarkProcessing(w) ==
    /\ wpc[w] = "start"
    /\ IF wjob[w].doc_id \in DocIds
       THEN /\ documents' = [documents EXCEPT ![wjob[w].doc_id].status = "processing"]
            /\ wpc' = [wpc EXCEPT ![w] = "process_url"]
            /\ wjob' = wjob
       ELSE /\ documents' = documents
            /\ wpc' = [wpc EXCEPT ![w] = "idle"]
            /\ wjob' = [wjob EXCEPT ![w] = NoJob]
    /\ UNCHANGED <<job_queue, hpc, hurl, hdoc, wres>>
    /\ resp' = Silent
    /\ UNCHANGED <<points, chunker, provider_config, qs>>
    /\ out' = NoOutput

\* What requests.get and the parser give for the URL: the message of the
\* failure (`failed`), or the title and the cleaned text of the page.
FetchOutcomes ==
    {[failed |-> e, title |-> NULL, chars |-> -1, words |-> 0] : e \in FetchErrors}
      \cup {[failed |-> NULL, title |-> PageTitle(pg), chars |-> pg.chars,
             words |-> pg.words] : pg \in Pages}

\* fetch_url returning the title of the page as it is, None included.
fetch_url_NoTitleFallback(url, o) ==
    IF o.failed # NULL
    THEN [error |-> o.failed, title |-> NULL, chars |-> -1, words |-> 0]
    ELSE IF o.chars < MIN_CHARS
    THEN [error |-> "Insufficient content extracted", title |-> NULL,
          chars |-> o.chars, words |-> 0]
    ELSE [error |-> NULL, title |-> o.title, chars |-> o.chars, words |-> o.words]

\* fetch_url accepting a cleaned text of any length.
fetch_url_NoMinimum(url, o) ==
    IF o.failed # NULL
    THEN [error |-> o.failed, title |-> NULL, chars |-> -1, words |-> 0]
    ELSE [error |-> NULL, title |-> IF o.title # NULL THEN o.title ELSE UrlText(url),
          chars |-> o.chars, words |-> o.words]

\* fetch_url: the failures of the request, of the content type and of the
\* parser are raised; so is a cleaned text of fewer than 100 characters.
\* The title is that of the page, or the URL when the page has none.
fetch_url(url, o) ==
    IF o.failed # NULL
    THEN [error |-> o.failed, title |-> NULL, chars |-> -1, words |-> 0]
    ELSE IF o.chars < MIN_CHARS
    THEN [error |-> "Insufficient content extracted", title |-> NULL,
          chars |-> o.chars, words |-> 0]
    ELSE [error |-> NULL, title |-> IF o.title # NULL THEN o.title ELSE UrlText(url),
          chars |-> o.chars, words |-> o.words]

\* process_url: fetch_url, then chunk_text on the text with the settings.
process_url(url, o) ==
    LET f == fetch_url(url, o)
        r == chunk_words(f.words, CHUNK_SIZE, CHUNK_OVERLAP)
    IN  IF f.error # NULL
        THEN [title |-> NULL, chars |-> f.chars, words |-> 0, chunks |-> 0,
              chunk_count |-> 0, error |-> f.error]
        ELSE [title |-> IF r.error = NULL THEN f.title ELSE NULL,
              chars |-> f.chars, words |-> f.words,
              chunks |-> Len(r.windows), chunk_count |-> 0, error |-> r.error]

\* Line 31 going on to the commit of completed without add_chunks.
JobProcessUrl_SkipsIndex(w) ==
    /\ wpc[w] = "process_url"
    /\ \/ \E o \in FetchOutcomes :
            /\ wres' = [wres EXCEPT ![w] = process_url(wjob[w].url, o)]
            /\ wpc' = [wpc EXCEPT ![w] =
                          IF process_url(wjob[w].url, o).error = NULL THEN "completed"
                          ELSE "except"]
       \/ /\ wres' = [wres EXCEPT ![w] = [NoRes EXCEPT !.error = TimeoutError]]
          /\ wpc' = [wpc EXCEPT ![w] = "except"]
    /\ UNCHANGED <<documents, job_queue, hpc, hurl, hdoc, wjob>>
    /\ resp' = Silent
    /\ UNCHANGED <<points, chunker, provider_config, qs>>
    /\ out' = NoOutput

\* Line 31: ingestion_service.process_url: fetch, extract and chunk. It
\* returns (title, chunks) or raises; rq's timeout raises inside it too.
JobProcessUrl(w) ==
    /\ wpc[w] = "process_url"
    /\ \/ \E o \in FetchOutcomes :
            /\ wres' = [wres EXCEPT ![w] = process_url(wjob[w].url, o)]
            /\ wpc' = [wpc EXCEPT ![w] =
                          IF process_url(wjob[w].url, o).error = NULL THEN "add_chunks"
                          ELSE "except"]
       \/ /\ wres' = [wres EXCEPT ![w] = [NoRes EXCEPT !.error = TimeoutError]]
          /\ wpc' = [wpc EXCEPT ![w] = "except"]
    /\ UNCHANGED <<documents, job_queue, hpc, hurl, hdoc, wjob>>
    /\ resp' = Silent
    /\ UNCHANGED <<points, chunker, provider_config, qs>>
    /\ out' = NoOutput

\* Lines 36-44 and add_chunks: one point per chunk, each with a fresh
\* uuid4 as its id, so that the upsert adds them to the collection.
NewPoints(job, res) ==
    [i \in 1..res.chunks |->
        [doc_id |-> job.doc_id, url |-> job.url, title |-> res.title,
         chunk_index |-> i - 1,
         text |-> chunk_words(res.words, CHUNK_SIZE, CHUNK_OVERLAP).windows[i]]]

\* Lines 36-47: vector_store.add_chunks embeds, upserts and returns the
\* number of points; it raises before the upsert (embedding, Qdrant, the
\* timeout), or the timeout is raised after the upsert, before the commit.
JobAddChunks(w) ==
    /\ wpc[w] = "add_chunks"
    /\ LET new == NewPoints(wjob[w], wres[w]) IN
       \/ /\ points' = points \o new
          /\ wres' = [wres EXCEPT ![w].chunk_count = Len(new)]
          /\ wpc' = [wpc EXCEPT ![w] = "completed"]
       \/ \E e \in IndexErrors \cup {TimeoutError} :
            /\ points' = points
            /\ wres' = [wres EXCEPT ![w].error = e]
            /\ wpc' = [wpc EXCEPT ![w] = "except"]
       \/ /\ points' = points \o new
          /\ wres' = [wres EXCEPT ![w].error = TimeoutError]
          /\ wpc' = [wpc EXCEPT ![w] = "except"]
    /\ UNCHANGED <<documents, job_queue, hpc, hurl, hdoc, wjob>>
    /\ resp' = Silent
    /\ UNCHANGED <<chunker, provider_config, qs>>
    /\ out' = NoOutput

\* The commit of completed without `document.chunk_count = chunk_count`.
JobMarkCompleted_NoCount(w) ==
    /\ wpc[w] = "completed"
    /\ documents' = [documents EXCEPT ![wjob[w].doc_id].title = wres[w].title,
                                      ![wjob[w].doc_id].status = "completed"]
    /\ wpc' = [wpc EXCEPT ![w] = "idle"]
    /\ wjob' = [wjob EXCEPT ![w] = NoJob]
    /\ wres' = [wres EXCEPT ![w] = NoRes]
    /\ UNCHANGED <<job_queue, hpc, hurl, hdoc>>
    /\ resp' = Silent
    /\ UNCHANGED <<points, chunker, provider_config, qs>>
    /\ out' = NoOutput

\* Lines 52-55: title, status completed, chunk_count; commit.
JobMarkCompleted(w) ==
    /\ wpc[w] = "completed"
    /\ documents' = [documents EXCEPT ![wjob[w].doc_id].title = wres[w].title,
                                      ![wjob[w].doc_id].status = "completed",
                                      ![wjob[w].doc_id].chunk_count = wres[w].chunk_count]
    /\ wpc' = [wpc EXCEPT ![w] = "idle"]
    /\ wjob' = [wjob EXCEPT ![w] = NoJob]
    /\ wres' = [wres EXCEPT ![w] = NoRes]
    /\ UNCHANGED <<job_queue, hpc, hurl, hdoc>>
    /\ resp' = Silent
    /\ UNCHANGED <<points, chunker, provider_config, qs>>
    /\ out' = NoOutput

\* The except branch deleting the Document of the failed run.
JobMarkFailed_DeletesDocument(w) ==
    /\ wpc[w] = "except"
    /\ documents' = [i \in 1..(Len(documents) - 1) |->
                        IF i < wjob[w].doc_id THEN documents[i]
                        ELSE documents[i + 1]]
    /\ wpc' = [wpc EXCEPT ![w] = "idle"]
    /\ wjob' = [wjob EXCEPT ![w] = NoJob]
    /\ wres' = [wres EXCEPT ![w] = NoRes]
    /\ UNCHANGED <<job_queue, hpc, hurl, hdoc>>
    /\ resp' = Silent
    /\ UNCHANGED <<points, chunker, provider_config, qs>>
    /\ out' = NoOutput

\* The except branch recording what the run had got so far.
JobMarkFailed_KeepsPartial(w) ==
    /\ wpc[w] = "except"
    /\ documents' = [documents EXCEPT ![wjob[w].doc_id].status = "failed",
                                      ![wjob[w].doc_id].error_message = wres[w].error,
                                      ![wjob[w].doc_id].title = wres[w].title,
                                      ![wjob[w].doc_id].chunk_count = wres[w].chunks]
    /\ wpc' = [wpc EXCEPT ![w] = "idle"]
    /\ wjob' = [wjob EXCEPT ![w] = NoJob]
    /\ wres' = [wres EXCEPT ![w] = NoRes]
    /\ UNCHANGED <<job_queue, hpc, hurl, hdoc>>
    /\ resp' = Silent
    /\ UNCHANGED <<points, chunker, provider_config, qs>>
    /\ out' = NoOutput

\* The except branch putting the job back on the queue.
JobMarkFailed_Requeues(w) ==
    /\ wpc[w] = "except"
    /\ documents' = [documents EXCEPT ![wjob[w].doc_id].status = "failed",
                                      ![wjob[w].doc_id].error_message = wres[w].error]
    /\ job_queue' = Append(job_queue, wjob[w])
    /\ wpc' = [wpc EXCEPT ![w] = "idle"]
    /\ wjob' = [wjob EXCEPT ![w] = NoJob]
    /\ wres' = [wres EXCEPT ![w] = NoRes]
    /\ UNCHANGED <<hpc, hurl, hdoc>>
    /\ resp' = Silent
    /\ UNCHANGED <<points, chunker, provider_config, qs>>
    /\ out' = NoOutput

\* The except branch leaving the worker unable to take another job.
JobMarkFailed_WorkerDies(w) ==
    /\ wpc[w] = "except"
    /\ documents' = [documents EXCEPT ![wjob[w].doc_id].status = "failed",
                                      ![wjob[w].doc_id].error_message = wres[w].error]
    /\ wpc' = [wpc EXCEPT ![w] = "dead"]
    /\ wjob' = [wjob EXCEPT ![w] = NoJob]
    /\ wres' = [wres EXCEPT ![w] = NoRes]
    /\ UNCHANGED <<job_queue, hpc, hurl, hdoc>>
    /\ resp' = Silent
    /\ UNCHANGED <<points, chunker, provider_config, qs>>
    /\ out' = NoOutput

\* The except branch recording a fixed message instead of str(e).
JobMarkFailed_GenericMessage(w) ==
    /\ wpc[w] = "except"
    /\ documents' = [documents EXCEPT ![wjob[w].doc_id].status = "failed",
                                      ![wjob[w].doc_id].error_message = "Processing failed"]
    /\ wpc' = [wpc EXCEPT ![w] = "idle"]
    /\ wjob' = [wjob EXCEPT ![w] = NoJob]
    /\ wres' = [wres EXCEPT ![w] = NoRes]
    /\ UNCHANGED <<job_queue, hpc, hurl, hdoc>>
    /\ resp' = Silent
    /\ UNCHANGED <<points, chunker, provider_config, qs>>
    /\ out' = NoOutput

\* The except branch recording the message but not the status.
JobMarkFailed_StatusNotWritten(w) ==
    /\ wpc[w] = "except"
    /\ documents' = [documents EXCEPT ![wjob[w].doc_id].error_message = wres[w].error]
    /\ wpc' = [wpc EXCEPT ![w] = "idle"]
    /\ wjob' = [wjob EXCEPT ![w] = NoJob]
    /\ wres' = [wres EXCEPT ![w] = NoRes]
    /\ UNCHANGED <<job_queue, hpc, hurl, hdoc>>
    /\ resp' = Silent
    /\ UNCHANGED <<points, chunker, provider_config, qs>>
    /\ out' = NoOutput

\* Lines 59-69: the except branch: status failed, error_message = str(e).
JobMarkFailed(w) ==
    /\ wpc[w] = "except"
    /\ documents' = [documents EXCEPT ![wjob[w].doc_id].status = "failed",
                                      ![wjob[w].doc_id].error_message = wres[w].error]
    /\ wpc' = [wpc EXCEPT ![w] = "idle"]
    /\ wjob' = [wjob EXCEPT ![w] = NoJob]
    /\ wres' = [wres EXCEPT ![w] = NoRes]
    /\ UNCHANGED <<job_queue, hpc, hurl, hdoc>>
    /\ resp' = Silent
    /\ UNCHANGED <<points, chunker, provider_config, qs>>
    /\ out' = NoOutput

process_url_job(w) ==
    \/ JobMarkProcessing(w)
    \/ JobProcessUrl(w)
    \/ JobAddChunks(w)
    \/ JobMarkCompleted(w)
    \/ JobMarkFailed(w)

\* A call of chunk_text on its own returns or raises.
ChunkCall ==
    /\ ~chunker.done
    /\ chunker' = [chunker EXCEPT
                     !.done = TRUE,
                     !.out = chunk_text(chunker.text, chunker.chunk_size,
                                        chunker.overlap)]
    /\ UNCHANGED <<documents, job_queue, hpc, hurl, hdoc, resp, wpc, wjob, wres,
                   points, provider_config, qs, out>>

(***************************************************************************)
(* main.py: /provider, /provider/switch; services/query.py                 *)
(***************************************************************************)
Kinds == {"ollama", "openai", "gemini"}
ApiKeys == {"k1"}
Models == {"m1"}

\* The JSON bodies of POST /provider/switch: `provider` lowercased,
\* config.api_key and config.model, NULL when the key is absent.
SwitchBodies ==
    [provider : Kinds \cup {"mistral", ""}, api_key : ApiKeys \cup {NULL},
     model : Models \cup {NULL}]

\* get_llm_provider: the provider of the kind, or ValueError when a value
\* of the kind is missing or the kind is unknown.
get_llm_provider(config) ==
    IF config.provider = "ollama"
    THEN IF config.ollama_base_url = NULL \/ config.ollama_model = NULL
         THEN [error |-> "Ollama base_url and model are required", provider |-> NULL]
         ELSE [error |-> NULL,
               provider |-> [kind |-> "ollama", model |-> config.ollama_model,
                             credential |-> config.ollama_base_url]]
    ELSE IF config.provider = "openai"
    THEN IF config.openai_api_key = NULL \/ config.openai_model = NULL
         THEN [error |-> "OpenAI API key and model are required", provider |-> NULL]
         ELSE [error |-> NULL,
               provider |-> [kind |-> "openai", model |-> config.openai_model,
                             credential |-> config.openai_api_key]]
    ELSE IF config.provider = "gemini"
    THEN IF config.gemini_api_key = NULL \/ config.gemini_model = NULL
         THEN [error |-> "Gemini API key and model are required", provider |-> NULL]
         ELSE [error |-> NULL,
               provider |-> [kind |-> "gemini",
                             model |-> IF config.gemini_model = "gemini-pro"
                                       THEN "models/gemini-2.0-flash-exp"
                                       ELSE config.gemini_model,
                             credential |-> config.gemini_api_key]]
    ELSE [error |-> "Unknown provider", provider |-> NULL]

\* get_provider_name of the three providers.
get_provider_name(provider) ==
    IF provider.kind = "ollama" THEN <<"Ollama", provider.model>>
    ELSE IF provider.kind = "openai" THEN <<"OpenAI", provider.model>>
    ELSE <<"Google Gemini", provider.model>>

\* _get_provider_config: the value of the key, or the defaults built from
\* `settings` when the key is not set.
get_provider_config(config) ==
    IF config # NoConfig
    THEN [error |-> NULL, config |-> config]
    ELSE IF {"LLM_PROVIDER", "OPENAI_API_KEY", "OPENAI_MODEL", "GEMINI_API_KEY",
             "GEMINI_MODEL"} \subseteq SettingsFields
    THEN [error |-> NULL,
          config |-> [provider |-> Setting("LLM_PROVIDER"),
                      ollama_base_url |-> Setting("OLLAMA_BASE_URL"),
                      ollama_model |-> Setting("OLLAMA_MODEL"),
                      openai_api_key |-> Setting("OPENAI_API_KEY"),
                      openai_model |-> Setting("OPENAI_MODEL"),
                      gemini_api_key |-> Setting("GEMINI_API_KEY"),
                      gemini_model |-> Setting("GEMINI_MODEL")]]
    ELSE [error |-> AttributeError, config |-> NoConfig]

\* _ensure_provider of the service state q with the key holding `config`:
\* the raised error, and the service state afterwards. The provider is
\* built anew when there is none or when the name of the kind has changed;
\* the arguments of the call read four more settings.
ensure_provider(q, config) ==
    LET g == get_provider_config(config) IN
    IF g.error # NULL
    THEN [error |-> g.error, qs |-> q]
    ELSE IF q.provider = NULL \/ g.config.provider # q.last_provider
    THEN IF ~({"OPENAI_TEMPERATURE", "OPENAI_MAX_TOKENS", "GEMINI_TEMPERATURE",
               "GEMINI_MAX_TOKENS"} \subseteq SettingsFields)
         THEN [error |-> AttributeError, qs |-> q]
         ELSE LET b == get_llm_provider(g.config) IN
              IF b.error # NULL
              THEN [error |-> b.error, qs |-> q]
              ELSE [error |-> NULL,
                    qs |-> [provider |-> b.provider,
                            last_provider |-> g.config.provider]]
    ELSE [error |-> NULL, qs |-> q]

\* get_current_provider: the name of the provider, "None" when
\* _ensure_provider raises.
get_current_provider(q, config) ==
    LET e == ensure_provider(q, config) IN
    IF e.error # NULL \/ e.qs.provider = NULL
    THEN [name |-> <<"None", "">>, qs |-> e.qs]
    ELSE [name |-> get_provider_name(e.qs.provider), qs |-> e.qs]

\* set_provider followed by lines 118-126 of switch_provider.
Switched(kind, config) ==
    LET g == get_current_provider(NoService, config) IN
    [config |-> config, qs |-> g.qs, code |-> 200,
     body |-> [status |-> "success", provider |-> g.name, switched_to |-> kind]]

\* An HTTPException of switch_provider: nothing is written.
Refused(q, config, code, detail) ==
    [config |-> config, qs |-> q, code |-> code, body |-> [detail |-> detail]]

\* switch_provider writing the configuration before it looks at api_key.
switch_provider_WritesFirst(q, config, body) ==
    IF body.provider = "ollama"
    THEN Switched("ollama",
                  [NoConfig EXCEPT !.provider = "ollama",
                                   !.ollama_base_url = Setting("OLLAMA_BASE_URL"),
                                   !.ollama_model = Setting("OLLAMA_MODEL")])
    ELSE IF body.provider \in {"openai", "gemini"}
    THEN Refused(NoService, [NoConfig EXCEPT !.provider = body.provider], 400,
                 "API key required")
    ELSE Refused(q, config, 400, "Unknown provider")

\* switch_provider with the service state q of the process and the key
\* holding `config`: the key and the service state afterwards, the status
\* code and the body.
switch_provider(q, config, body) ==
    IF body.provider = "ollama"
    THEN Switched("ollama",
                  [NoConfig EXCEPT !.provider = "ollama",
                                   !.ollama_base_url = Setting("OLLAMA_BASE_URL"),
                                   !.ollama_model = Setting("OLLAMA_MODEL")])
    ELSE IF body.provider = "openai"
    THEN IF body.api_key = NULL
         THEN Refused(q, config, 400, "OpenAI API key required")
         ELSE IF "OPENAI_MODEL" \notin SettingsFields
         THEN Refused(q, config, 500, AttributeError)
         ELSE Switched("openai",
                       [NoConfig EXCEPT !.provider = "openai",
                                        !.openai_api_key = body.api_key,
                                        !.openai_model =
                                            IF body.model # NULL THEN body.model
                                            ELSE Setting("OPENAI_MODEL")])
    ELSE IF body.provider = "gemini"
    THEN IF body.api_key = NULL
         THEN Refused(q, config, 400, "Gemini API key required")
         ELSE IF "GEMINI_MODEL" \notin SettingsFields
         THEN Refused(q, config, 500, AttributeError)
         ELSE Switched("gemini",
                       [NoConfig EXCEPT !.provider = "gemini",
                                        !.gemini_api_key = body.api_key,
                                        !.gemini_model =
                                            IF body.model # NULL THEN body.model
                                            ELSE Setting("GEMINI_MODEL")])
    ELSE Refused(q, config, 400, "Unknown provider")

\* What the other entrypoints leave alone.
RegistryUnchanged ==
    /\ UNCHANGED <<documents, job_queue, hpc, hurl, hdoc, wpc, wjob, wres, points,
                   chunker>>
    /\ resp' = Silent

\* POST /provider/switch handled by process p.
SwitchCall(p, body) ==
    LET r == switch_provider(qs[p], provider_config, body) IN
    /\ provider_config' = r.config
    /\ qs' = [qs EXCEPT ![p] = r.qs]
    /\ out' = [proc |-> p, op |-> "switch", code |-> r.code, body |-> r.body]
    /\ RegistryUnchanged

SwitchProvider(p) == \E body \in SwitchBodies : SwitchCall(p, body)

\* GET /provider handled by process p.
GetProvider(p) ==
    LET g == get_current_provider(qs[p], provider_config) IN
    /\ qs' = [qs EXCEPT ![p] = g.qs]
    /\ out' = [proc |-> p, op |-> "provider", code |-> 200,
               body |-> [provider |-> g.name]]
    /\ provider_config' = provider_config
    /\ RegistryUnchanged

Next ==
    \/ \E p \in Procs : ingest_url(p)
    \/ \E w \in Workers : WorkerDequeue(w)
    \/ \E w \in Workers : process_url_job(w)

Spec == Init /\ [][Next]_vars

\* A request handler that has started runs to its return, and an rq worker
\* keeps taking and executing jobs. Nothing obliges a client to submit.
Fairness ==
    /\ \A p \in Procs :
         WF_vars(IngestRetryCommit(p) \/ IngestRetryEnqueue(p) \/ IngestCreate(p)
                   \/ IngestEnqueue(p) \/ IngestEnqueueFailed(p))
    /\ \A w \in Workers : WF_vars(WorkerDequeue(w) \/ process_url_job(w))

FairSpec == Spec /\ Fairness

(***************************************************************************)
(* main.py: /query; services/query.py query; vector_store.py search        *)
(***************************************************************************)
\* settings.TOP_K_RESULTS
TOP_K_RESULTS == 5

\* The top_k of a QueryRequest; NoTopK stands for an explicit null.
NoTopK == -1
TopKs == {NoTopK, 1, 2}

\* The state of the generation backend when generate_answer calls it.
Backends == {"up", "down"}

\* The points of a collection of n points in the order of their score for
\* a question, best first.
Rankings(n) ==
    {r \in [1..n -> 1..n] : \A i, j \in 1..n : r[i] = r[j] => i = j}

\* VectorStoreService.search: the top_k best points of the ranking, each
\* with its text, its score and the rest of its payload.
search(pts, top_k, ranking) ==
    [k \in 1..Min(top_k, Len(pts)) |->
        [text |-> pts[ranking[k]].text,
         score |-> Len(pts) - k,
         metadata |-> [doc_id |-> pts[ranking[k]].doc_id,
                       url |-> pts[ranking[k]].url,
                       title |-> pts[ranking[k]].title,
                       chunk_index |-> pts[ranking[k]].chunk_index]]]

\* r['text'][:200] + "..."
Preview(text) == [first |-> 200, of |-> text, then |-> "..."]

\* The entry of `sources` for the hit r.
SourceOf(r) ==
    [url |-> r.metadata.url, title |-> r.metadata.title,
     chunk_text |-> Preview(r.text), score |-> r.score]

NoInformation ==
    "I couldn't find any relevant information in the knowledge base to answer your question."

NoResult == [answer |-> NULL, sources |-> <<>>, provider |-> <<"None", "">>]

\* QueryService.query: the class of the exception it raises (NULL when it
\* returns), the service state afterwards and the dictionary it returns.
query(q, config, pts, top_k, ranking, backend) ==
    LET e == ensure_provider(q, config) IN
    IF e.error # NULL
    THEN [raised |-> "Exception", detail |-> e.error, qs |-> e.qs,
          result |-> NoResult]
    ELSE LET results == search(pts, IF top_k = NoTopK THEN TOP_K_RESULTS ELSE top_k,
                               ranking)
             g == get_current_provider(e.qs, config)
         IN  IF results = <<>>
             THEN [raised |-> NULL, detail |-> NULL, qs |-> g.qs,
                   result |-> [answer |-> NoInformation, sources |-> <<>>,
                               provider |-> g.name]]
             ELSE IF backend = "down"
             THEN [raised |-> "ConnectionError", detail |-> "service unavailable",
                   qs |-> e.qs, result |-> NoResult]
             ELSE [raised |-> NULL, detail |-> NULL, qs |-> g.qs,
                   result |-> [answer |-> "answer",
                               sources |-> [k \in 1..Len(results) |->
                                               SourceOf(results[k])],
                               provider |-> g.name]]

\* query_knowledge_base: ConnectionError is answered with 503, any other
\* exception with 500; QueryResponse has the fields answer, sources and
\* question, so the `provider` of the result is not in the response.
query_knowledge_base(r) ==
    IF r.raised = "ConnectionError"
    THEN [code |-> 503, body |-> [detail |-> "LLM service unavailable"]]
    ELSE IF r.raised # NULL
    THEN [code |-> 500, body |-> [detail |-> r.detail]]
    ELSE [code |-> 200,
          body |-> [question |-> "question", answer |-> r.result.answer,
                    sources |-> r.result.sources]]

\* POST /query handled by process p.
QueryCall(p, top_k, ranking, backend) ==
    LET r == query(qs[p], provider_config, points, top_k, ranking, backend)
        h == query_knowledge_base(r)
    IN  /\ qs' = [qs EXCEPT ![p] = r.qs]
        /\ out' = [proc |-> p, op |-> "query", code |-> h.code, body |-> h.body]
        /\ provider_config' = provider_config
        /\ RegistryUnchanged

Query(p) ==
    \E top_k \in TopKs, ranking \in Rankings(Len(points)), backend \in Backends :
        QueryCall(p, top_k, ranking, backend)

\* The entrypoints together, with one API process submitting URLs and one
\* worker running the jobs.
ApiNext ==
    \/ ingest_url("api1")
    \/ WorkerDequeue("rq1")
    \/ process_url_job("rq1")
    \/ \E p \in Procs : SwitchProvider(p)
    \/ \E p \in Procs : GetProvider(p)
    \/ \E p \in Procs : Query(p)

ApiSpec == Init /\ [][ApiNext]_vars

(***************************************************************************)
(* main.py: /documents                                                     *)
(***************************************************************************)
\* The URLs of the rows of a table, by id.
UrlNames == <<"a", "b", "c", "d", "e">>

\* The row with id i in the status st: as created, as a run has left it.
RowIn(i, st) ==
    [Document(<<"http", UrlNames[i]>>) EXCEPT
        !.status = st,
        !.title = IF st = "completed" THEN "T" ELSE NULL,
        !.chunk_count = IF st = "completed" THEN 2 ELSE 0,
        !.error_message = IF st = "failed" THEN "Too many redirects" ELSE NULL]

\* The documents tables of up to MaxDocs rows.
Tables ==
    UNION {{[i \in 1..n |-> RowIn(i, st[i])] :
               st \in [1..n -> {"pending", "processing", "completed", "failed"}]} :
           n \in 0..MaxDocs}

\* The query parameters of GET /documents: status (NULL when absent),
\* limit and offset.
ListRequests ==
    [status : {NULL, "", "pending", "completed", "failed", "archived"},
     limit : 0..MaxLimit, offset : 0..MaxLimit]

\* Document.to_dict
to_dict(i) ==
    [id |-> i, url |-> documents[i].url, title |-> documents[i].title,
     status |-> documents[i].status, chunk_count |-> documents[i].chunk_count,
     error_message |-> documents[i].error_message]

\* The rows of the query: all of them, or those of the status when `status`
\* is not empty.
Filtered(status) ==
    {i \in DocIds : status \in {NULL, ""} \/ documents[i].status = status}

\* The orders in which the database may return the rows S: the query has
\* no ORDER BY.
RowOrders(S) ==
    {f \in [1..Cardinality(S) -> S] : \A i, j \in 1..Cardinality(S) :
                                         f[i] = f[j] => i = j}

\* list_documents counting the rows of the page instead of the query.
list_documents_CountsPage(request, rows) ==
    LET page == SubSeq(rows, request.offset + 1,
                       Min(request.offset + request.limit, Len(rows)))
    IN  [total |-> Len(page),
         documents |-> [k \in 1..Len(page) |-> to_dict(page[k])]]

\* list_documents: total is query.count(), documents the rows of
\* query.offset(offset).limit(limit).all(), `rows` being the rows of the
\* query in the order of the database.
list_documents(request, rows) ==
    LET page == SubSeq(rows, request.offset + 1,
                       Min(request.offset + request.limit, Len(rows)))
    IN  [total |-> Len(rows),
         documents |-> [k \in 1..Len(page) |-> to_dict(page[k])]]

\* GET /documents on its own.
ListDocuments ==
    /\ out = NoOutput
    /\ \E request \in ListRequests :
         \E rows \in RowOrders(Filtered(request.status)) :
            out' = [proc |-> "api1", op |-> "documents", code |-> 200,
                    body |-> [request |-> request,
                              response |-> list_documents(request, rows)]]
    /\ UNCHANGED <<documents, job_queue, hpc, hurl, hdoc, resp, wpc, wjob, wres,
                   points, chunker, provider_config, qs>>

\* GET /documents for every table of Tables.
ListInit ==
    /\ documents \in Tables
    /\ Quiet
    /\ chunker = NoCall
    /\ Providers

ListNext == ListDocuments

ListSpec == ListInit /\ [][ListNext]_vars

ChunkNext == ChunkCall

ChunkSpec == ChunkInit /\ [][ChunkNext]_vars

\* The ids a document can have: one row per URL that passes the scheme check.
PossibleIds == 1..Cardinality({u \in Urls : ValidScheme(u)})

StatusOf(i) == IF i \in DocIds THEN documents[i].status ELSE "none"

(***************************************************************************)
(* Document registry and dispatcher: the claims                            *)
(***************************************************************************)

\* C1: in every reachable state, whatever the interleaving of ingest_url
\* calls, no two rows of the documents table carry the same URL.
C1_OneDocumentPerUrl ==
    \A i, j \in DocIds : documents[i].url = documents[j].url => i = j

\* Two calls both found no row for the URL; the second INSERT was refused.
C1_RaceWitness ==
    \E p \in Procs :
        /\ resp[p] = HTTPException(500, "Failed to create document record")
        /\ Len(documents) = 1

\* C2: a call that found no row at its lookup and then meets the row another
\* call inserted meanwhile returns successfully (202) with that row's id.
C2_RaceLoserGetsWinnersDocument ==
    [][\A p \in Procs :
         (hpc[p] = "create" /\ hpc'[p] = "idle" /\ FindByUrl(hurl[p]) # 0)
            => /\ resp'[p].code = 202
               /\ resp'[p].job_id = FindByUrl(hurl[p])]_vars

\* The edges of the status state machine (spec 4.1).
AllowedEdges ==
    {<<"pending", "processing">>, <<"processing", "completed">>,
     <<"processing", "failed">>, <<"failed", "pending">>}

\* C3: every step that changes a Document's status follows one of the edges
\* pending->processing, processing->completed, processing->failed,
\* failed->pending.
C3_StatusEdges ==
    [][\A i \in DocIds :
         documents'[i].status # documents[i].status
            => <<documents[i].status, documents'[i].status>> \in AllowedEdges]_vars

\* C4: no step takes a Document from processing to pending.
C4_NoProcessingToPending ==
    [][\A i \in DocIds :
         documents[i].status = "processing"
            => documents'[i].status # "pending"]_vars

\* A worker is running a job from the dequeue until the job's last commit.
Running(w) == wpc[w] # "idle"

\* C5: at no time do two workers run jobs for the same document id.
C5_OneRunningJobPerDocument ==
    \A v, w \in Workers :
        (v # w /\ Running(v) /\ Running(w)) => wjob[v].doc_id # wjob[w].doc_id

\* C6: with fair workers, a Document that is processing eventually is
\* completed or failed, whether the job body returns, raises or times out.
C6_ProcessingEnds ==
    \A i \in PossibleIds :
        (StatusOf(i) = "processing") ~> (StatusOf(i) \in {"completed", "failed"})

\* A run that timed out has ended with the Document failed.
C6_TimedOutRunFailed ==
    \E i \in DocIds :
        /\ documents[i].status = "failed"
        /\ documents[i].error_message = TimeoutError

\* C7: after the commit of a retry submission (the Document is pending), the
\* Document eventually is completed or failed again, also when the enqueue
\* call of the retry fails.
C7_RetryEventuallyTerminal ==
    \A p \in Procs : \A i \in PossibleIds :
        (hpc[p] = "retry_enqueue" /\ hdoc[p] = i)
            ~> (StatusOf(i) \in {"completed", "failed"})

\* C8: a change from failed to pending is made only by the commit of a retry
\* submission for that Document, which clears error_message in the same
\* update; a call that finds the Document failed goes on to that commit; and
\* the retry call whose enqueue is accepted appends exactly one job for that
\* id and URL and answers pending with the retrying message.
C8_RetryOfFailed ==
    [][\A i \in DocIds :
         /\ (documents[i].status = "failed" /\ documents'[i].status = "pending")
               => /\ documents'[i].error_message = NULL
                  /\ \E p \in Procs : /\ hpc[p] = "retry_commit"
                                      /\ hdoc[p] = i
                                      /\ hpc'[p] = "retry_enqueue"
         /\ \A p \in Procs :
              /\ (hpc[p] = "idle" /\ hpc'[p] # "idle" /\ documents[i].url = hurl'[p]
                    /\ documents[i].status = "failed")
                    => (hpc'[p] = "retry_commit" /\ hdoc'[p] = i)
              /\ (hpc[p] = "retry_commit" /\ hpc'[p] # "retry_commit" /\ hdoc[p] = i)
                    => /\ documents'[i].status = "pending"
                       /\ documents'[i].error_message = NULL
              /\ (hpc[p] = "retry_enqueue" /\ hdoc[p] = i /\ resp'[p].code = 202)
                    => /\ job_queue' = Append(job_queue, Job(i, documents[i].url))
                       /\ resp'[p] = IngestURLResponse(i, documents[i].url, "pending",
                                                       "Retrying failed URL")]_vars

\* A retry submission has returned while its job is still queued.
C8_RetryReturned ==
    \E p \in Procs :
        /\ resp[p].message = "Retrying failed URL"
        /\ \E k \in 1..Len(job_queue) : job_queue[k].doc_id = resp[p].job_id

\* C9: the INSERT of a call for a URL that has no row adds exactly one row:
\* that URL, status pending, no error message, chunk_count 0; the call whose
\* enqueue is accepted appends exactly one job with the new row's id and URL
\* and answers 202 with that id and status pending.
C9_NewUrl ==
    [][\A p \in Procs :
         /\ (hpc[p] = "create" /\ hpc'[p] # "create" /\ FindByUrl(hurl[p]) = 0)
               => /\ Len(documents') = Len(documents) + 1
                  /\ SubSeq(documents', 1, Len(documents)) = documents
                  /\ documents'[Len(documents')] =
                        [url |-> hurl[p], title |-> NULL, status |-> "pending",
                         error_message |-> NULL, chunk_count |-> 0]
                  /\ hpc'[p] = "enqueue"
                  /\ hdoc'[p] = Len(documents')
         /\ (hpc[p] = "enqueue" /\ resp'[p].code = 202)
               => /\ documents[hdoc[p]].url = hurl[p]
                  /\ job_queue' = Append(job_queue, Job(hdoc[p], hurl[p]))
                  /\ documents' = documents
                  /\ resp'[p] = IngestURLResponse(hdoc[p], hurl[p], "pending",
                                                  "URL submitted for processing")]_vars

\* A first submission has returned: its Document and its job both exist.
C9_NewUrlReturned ==
    \E p \in Procs :
        /\ resp[p].message = "URL submitted for processing"
        /\ resp[p].job_id \in DocIds
        /\ \E k \in 1..Len(job_queue) : job_queue[k].doc_id = resp[p].job_id

\* C10: a call that finds the Document of its URL completed, pending or
\* processing is over in that step: it changes no Document and no queue and
\* answers 202 with that Document's id and the status it has.
C10_SeenUrlUntouched ==
    [][\A p \in Procs : \A i \in DocIds :
         (/\ hpc[p] = "idle"
          /\ \E u \in Urls : ValidScheme(u) /\ documents[i].url = u /\ IngestCheck(p, u)
          /\ documents[i].status \in {"completed", "pending", "processing"})
            => /\ hpc'[p] = "idle"
               /\ documents' = documents
               /\ job_queue' = job_queue
               /\ resp'[p].code = 202
               /\ resp'[p].job_id = i
               /\ resp'[p].url = documents[i].url
               /\ resp'[p].status = documents[i].status]_vars

\* A call has been answered for a Document that a worker is processing.
C10_SeenWhileProcessing ==
    \E p \in Procs : \E i \in DocIds :
        /\ resp[p] = IngestURLResponse(i, documents[i].url, "processing",
                                       "URL is currently being processed")
        /\ \E w \in Workers : wpc[w] = "add_chunks" /\ wjob[w].doc_id = i

\* C11: a call with a URL whose scheme is neither http nor https is over in
\* that step with a validation error (400 or 422): no Document is created,
\* no status changes and nothing is enqueued.
C11_BadSchemeRejected ==
    [][\A p \in Procs : \A u \in Urls :
         (u[1] \notin {"http", "https"} /\ IngestCheck(p, u))
            => /\ resp'[p].code \in {400, 422}
               /\ hpc'[p] = "idle"
               /\ documents' = documents
               /\ job_queue' = job_queue]_vars

\* An ftp URL has been refused while a Document exists.
C11_FtpRefused ==
    \E p \in Procs :
        /\ resp[p].code \in {400, 422}
        /\ resp[p].message = "Invalid URL scheme"
        /\ Len(documents) = 1


\* C12: an error raised by the job body after the commit of processing takes
\* the run to the except branch, and the run ends there with the Document
\* failed and error_message the message of the error; the worker is idle
\* again and the queue is as it was, so the next job is taken.
C12_RaisedErrorRecorded ==
    [][\A w \in Workers :
         /\ (wpc[w] \in {"process_url", "add_chunks"} /\ wres'[w].error # NULL)
               => wpc'[w] = "except"
         /\ (wpc[w] = "except" /\ wpc'[w] # "except")
               => /\ wres[w].error # NULL
                  /\ documents'[wjob[w].doc_id].status = "failed"
                  /\ documents'[wjob[w].doc_id].error_message = wres[w].error
                  /\ wpc'[w] = "idle"
                  /\ job_queue' = job_queue]_vars

\* After a run that failed on the vector store, a worker has taken the job
\* queued behind it.
C12_NextJobTaken ==
    \E w \in Workers :
        /\ wpc[w] = "start"
        /\ documents[wjob[w].doc_id].status = "failed"
        /\ documents[wjob[w].doc_id].error_message \in IndexErrors

\* C13: a run in which the job timeout was raised ends, and it ends with the
\* Document failed and the timeout message as error_message.
C13_TimeoutEndsFailed ==
    /\ [][\A w \in Workers :
            (wres[w].error = TimeoutError /\ wpc'[w] # wpc[w])
               => /\ documents'[wjob[w].doc_id].status = "failed"
                  /\ documents'[wjob[w].doc_id].error_message = TimeoutError]_vars
    /\ \A w \in Workers :
          (wres[w].error = TimeoutError) ~> (wpc[w] = "idle")

\* A run timed out after its upsert: the Document is failed with the timeout
\* message and its points are in the collection.
C13_TimedOutAfterUpsert ==
    \E i \in DocIds :
        /\ documents[i].status = "failed"
        /\ documents[i].error_message = TimeoutError
        /\ \E k \in 1..Len(points) : points[k].doc_id = i
        /\ \A w \in Workers : wpc[w] = "idle"

\* The points of the collection `pts` that carry the document id d.
PointsOf(pts, d) == {k \in 1..Len(pts) : pts[k].doc_id = d}

\* C14: after a run has written its points, the points carrying its document
\* id are those of that run alone, also when an earlier run wrote points for
\* the same id.
C14_ReindexOverwrites ==
    [][\A w \in Workers :
         (wpc[w] = "add_chunks" /\ points' # points)
            => Cardinality(PointsOf(points', wjob[w].doc_id)) = wres[w].chunks]_vars

\* The words of the text Text(n, sep, pad), in order.
InputWords(n) == [k \in 1..n |-> Word(k)]

\* The words ws one after the other with one blank between two of them.
RECURSIVE Spaced(_)
Spaced(ws) ==
    IF Len(ws) = 0 THEN <<>>
    ELSE IF Len(ws) = 1 THEN ws[1]
    ELSE Spaced(SubSeq(ws, 1, Len(ws) - 1)) \o <<SPACE>> \o ws[Len(ws)]

\* The smallest k with (k-1)*step + size >= n.
SmallestK(n, size, step) ==
    CHOOSE k \in 1..n :
        /\ (k - 1) * step + size >= n
        /\ \A j \in 1..(k - 1) : (j - 1) * step + size < n

\* C15: for a text of n >= 1 words and overlap < size, chunk_text returns k
\* chunks, k the smallest number with (k-1)*(size-overlap)+size >= n, and
\* chunk i is the words at [i*(size-overlap), min(n, i*(size-overlap)+size))
\* in order, one blank between two words; 1200 words with 500/50 give the
\* windows [0,500), [450,950), [900,1200).
C15_WindowLaw ==
    /\ chunk_words(1200, 500, 50).error = NULL
    /\ chunk_words(1200, 500, 50).windows
          = << <<0, 500>>, <<450, 950>>, <<900, 1200>> >>
    /\ \A n \in 1..MaxWords, sep \in 1..2, pad \in 0..1 :
          ( /\ chunker.done
            /\ chunker.text = Text(n, sep, pad)
            /\ chunker.overlap < chunker.chunk_size )
          => LET size == chunker.chunk_size
                 step == chunker.chunk_size - chunker.overlap
                 k == SmallestK(n, size, step)
             IN  /\ chunker.out.error = NULL
                 /\ Len(chunker.out.chunks) = k
                 /\ \A i \in 0..(k - 1) :
                       chunker.out.chunks[i + 1]
                         = Spaced(SubSeq(InputWords(n), i * step + 1,
                                         Min(n, i * step + size)))

\* A text with two blanks between its words and blanks around it came back
\* as three or more overlapping chunks.
C15_OverlappingChunks ==
    /\ chunker.done
    /\ chunker.text = Text(MaxWords, 2, 1)
    /\ chunker.overlap >= 1
    /\ chunker.out.error = NULL
    /\ Len(chunker.out.chunks) >= 3

\* C16: a call of chunk_text with overlap >= chunk_size ends with an error.
C16_OverlapNotBelowSizeFails ==
    (chunker.done /\ chunker.overlap >= chunker.chunk_size)
       => chunker.out.error # NULL

\* The letters of the chunk c: one for each of its words.
LettersOf(c) == {c[j] : j \in 1..Len(c)} \ {SPACE}

\* C17: for a text of n >= 1 words and overlap < size, every word of the text
\* is in some chunk, every chunk has at least one and at most size words,
\* every chunk but the last has size words, and the last chunk ends with the
\* last word of the text.
C17_ChunksCoverText ==
    \A n \in 1..MaxWords, sep \in 1..2, pad \in 0..1 :
       ( /\ chunker.done
         /\ chunker.text = Text(n, sep, pad)
         /\ chunker.overlap < chunker.chunk_size )
       => LET chunks == chunker.out.chunks
              m == Len(chunks)
          IN  /\ chunker.out.error = NULL
              /\ m >= 1
              /\ \A k \in 1..n : \E c \in 1..m : k \in LettersOf(chunks[c])
              /\ \A c \in 1..m :
                    /\ Cardinality(LettersOf(chunks[c])) >= 1
                    /\ Cardinality(LettersOf(chunks[c])) <= chunker.chunk_size
              /\ \A c \in 1..(m - 1) :
                    Cardinality(LettersOf(chunks[c])) = chunker.chunk_size
              /\ chunks[m][Len(chunks[m])] = n

\* A text came back with a last chunk shorter than chunk_size.
C17_ShortLastChunk ==
    /\ chunker.done
    /\ chunker.out.error = NULL
    /\ Len(chunker.out.chunks) >= 2
    /\ chunker.overlap < chunker.chunk_size
    /\ LET last == chunker.out.chunks[Len(chunker.out.chunks)]
       IN  Cardinality(LettersOf(last)) < chunker.chunk_size

\* C19: a call of chunk_text with a text that has no word, empty or blanks
\* only, ends with the error "No words found in text" and without chunks,
\* whatever chunk_size and overlap are.
C19_NoWordsRaises ==
    (chunker.done /\ \A j \in 1..Len(chunker.text) : chunker.text[j] = SPACE)
       => /\ chunker.out.error = "No words found in text"
          /\ chunker.out.chunks = <<>>

\* A text of blanks only was refused in a call with overlap > chunk_size.
C19_BlanksRefused ==
    /\ chunker.done
    /\ Len(chunker.text) > 0
    /\ \A j \in 1..Len(chunker.text) : chunker.text[j] = SPACE
    /\ chunker.overlap > chunker.chunk_size
    /\ chunker.out.error = "No words found in text"

\* C20: add_chunks returns the number of points it wrote, one per chunk of
\* the extracted text, and the commit of a run that succeeded leaves the
\* Document completed with the title of the page and that number as
\* chunk_count; for a text of 550 words it is 2.
C20_CompletedRecordsRun ==
    [][\A w \in Workers :
         /\ (wpc[w] = "add_chunks" /\ wpc'[w] = "completed")
               => /\ wres'[w].chunk_count = Len(points') - Len(points)
                  /\ wres'[w].chunk_count
                        = Len(chunk_words(wres[w].words, CHUNK_SIZE,
                                          CHUNK_OVERLAP).windows)
         /\ (wpc[w] = "completed" /\ wpc'[w] # "completed")
               => LET d == documents'[wjob[w].doc_id] IN
                  /\ d.status = "completed"
                  /\ d.title = wres[w].title
                  /\ d.title \in Titles
                  /\ d.chunk_count = wres[w].chunk_count
                  /\ wres[w].words = 550 => d.chunk_count = 2]_vars

\* A page of 550 words has been ingested: the Document is completed with
\* chunk_count 2 and two points carry its id.
C20_TwoChunksIndexed ==
    \E i \in DocIds :
        /\ documents[i].status = "completed"
        /\ documents[i].title \in Titles
        /\ documents[i].chunk_count = 2
        /\ Cardinality(PointsOf(points, i)) = 2

\* C21: process_url on a page whose cleaned text has fewer than 100
\* characters raises the extraction error, on a text of 100 characters or
\* more it does not; the run of a short page writes no point and ends with
\* the Document failed.
C21_ShortTextFails ==
    [][\A w \in Workers :
         /\ (wpc[w] = "process_url" /\ wres'[w].chars \in 0..99)
               => /\ wres'[w].error \in ExtractErrors
                  /\ wpc'[w] = "except"
                  /\ points' = points
         /\ (wpc[w] = "process_url" /\ wres'[w].chars >= 100)
               => /\ wres'[w].error = NULL
                  /\ wpc'[w] = "add_chunks"
         /\ (wpc[w] = "except" /\ wres[w].error \in ExtractErrors
                /\ wpc'[w] # "except")
               => /\ documents'[wjob[w].doc_id].status = "failed"
                  /\ documents'[wjob[w].doc_id].error_message \in ExtractErrors
                  /\ points' = points]_vars

\* The run of a page that is too short has ended: the Document is failed for
\* insufficient content and the collection is empty.
C21_ShortPageFailed ==
    /\ \E i \in DocIds :
          /\ documents[i].status = "failed"
          /\ documents[i].error_message \in ExtractErrors
    /\ points = <<>>
    /\ \A w \in Workers : wpc[w] = "idle"


\* The order of the steps of process_url_job.
RunOrder ==
    {<<"idle", "start">>, <<"start", "process_url">>, <<"start", "idle">>,
     <<"process_url", "add_chunks">>, <<"process_url", "except">>,
     <<"add_chunks", "completed">>, <<"add_chunks", "except">>,
     <<"completed", "idle">>, <<"except", "idle">>}

\* C29: a run goes from the commit of processing to process_url (extract,
\* chunk), to add_chunks (embed, upsert) and to the commit of completed, in
\* that order: points are written only by a run whose extraction and
\* chunking have succeeded, and a Document becomes completed only by the run
\* whose upsert has returned.
C29_StepsInOrder ==
    [][/\ \A w \in Workers :
            /\ wpc'[w] # wpc[w] => <<wpc[w], wpc'[w]>> \in RunOrder
            /\ (wpc[w] = "start" /\ wpc'[w] = "process_url")
                  => documents'[wjob[w].doc_id].status = "processing"
            /\ (wpc'[w] = "completed" /\ wpc[w] # "completed")
                  => /\ wres[w].error = NULL
                     /\ wres[w].chars >= 100
                     /\ wres[w].chunks >= 1
                     /\ points' = points \o NewPoints(wjob[w], wres[w])
       /\ points' # points
            => \E w \in Workers :
                  /\ wpc[w] = "add_chunks"
                  /\ wpc'[w] # "add_chunks"
                  /\ wres[w].error = NULL
                  /\ wres[w].chunks >= 1
       /\ \A i \in DocIds :
            (documents[i].status # "completed" /\ documents'[i].status = "completed")
               => \E w \in Workers :
                     /\ wjob[w].doc_id = i
                     /\ wpc[w] = "completed"
                     /\ wres[w].chunk_count = wres[w].chunks]_vars

\* The upsert of a run has returned and its commit of completed is still to
\* come: the Document is processing and its points are in the collection.
C29_UpsertBeforeCompleted ==
    \E w \in Workers :
        /\ wpc[w] = "completed"
        /\ documents[wjob[w].doc_id].status = "processing"
        /\ wres[w].chunk_count >= 1
        /\ Cardinality(PointsOf(points, wjob[w].doc_id)) = wres[w].chunk_count

\* C30: a run whose fetch or extraction fails (timeout, redirects, status,
\* content type, parser, insufficient content) goes to the except branch
\* and ends there: the Document is failed with the message, no point is
\* written, the fetch is not tried again and no job is enqueued.
C30_FetchFailureEndsRun ==
    [][\A w \in Workers :
         /\ (wpc[w] = "process_url"
                /\ wres'[w].error \in FetchErrors \cup ExtractErrors)
               => /\ wpc'[w] = "except"
                  /\ points' = points
                  /\ job_queue' = job_queue
                  /\ documents' = documents
         /\ (wpc[w] = "except"
                /\ wres[w].error \in FetchErrors \cup ExtractErrors
                /\ wpc'[w] # "except")
               => /\ wpc'[w] = "idle"
                  /\ documents'[wjob[w].doc_id].status = "failed"
                  /\ documents'[wjob[w].doc_id].error_message = wres[w].error
                  /\ points' = points
                  /\ job_queue' = job_queue]_vars

\* A run has ended on too many redirects: the Document is failed with that
\* message, the queue and the collection are empty, the workers idle.
C30_RedirectsFailed ==
    /\ \E i \in DocIds :
          /\ documents[i].status = "failed"
          /\ documents[i].error_message = "Too many redirects"
    /\ job_queue = <<>>
    /\ points = <<>>
    /\ \A w \in Workers : wpc[w] = "idle"

\* The first part of the provider name of a kind.
KindLabel(kind) ==
    CASE kind = "ollama" -> "Ollama"
      [] kind = "openai" -> "OpenAI"
      [] kind = "gemini" -> "Google Gemini"
      [] OTHER -> "None"

\* C22: once a switch has written kind B to the shared configuration, a
\* query handled by any process is answered with the provider name of kind
\* B (or with the provider-unavailable outcome when the backend is down).
C22_QueryReportsSwitchedKind ==
    [][\A p \in Procs :
         (provider_config.provider \in Kinds /\ out'.op = "query" /\ out'.proc = p)
            => \/ out'.code = 503
               \/ /\ out'.code = 200
                  /\ "provider" \in DOMAIN out'.body
                  /\ out'.body.provider[1] = KindLabel(provider_config.provider)]_vars

\* C23: once a switch has written a configuration, _ensure_provider yields
\* in every process the provider built from that configuration.
C23_ResolveYieldsWrittenConfig ==
    provider_config.provider \in Kinds
       => \A p \in Procs :
             LET e == ensure_provider(qs[p], provider_config) IN
             /\ e.error = NULL
             /\ e.qs.provider = get_llm_provider(provider_config).provider

C26_NoHitsCannedAnswer ==
    [][\A p \in Procs :
         \A top_k \in TopKs, ranking \in Rankings(Len(points)), backend \in Backends :
            (points = <<>> /\ QueryCall(p, top_k, ranking, backend))
               => /\ out'.code = 200
                  /\ out'.body.answer = NoInformation
                  /\ out'.body.sources = <<>>]_vars

\* C27: a query with hits whose backend answers has one source per hit, in
\* the order of the search and at most top_k of them, each with the url,
\* the title and the score of its hit and the first 200 characters of its
\* text followed by "...".
C27_SourcesFollowHits ==
    [][\A p \in Procs :
         \A top_k \in TopKs, ranking \in Rankings(Len(points)) :
            (Len(points) >= 1 /\ QueryCall(p, top_k, ranking, "up"))
               => LET k == IF top_k = NoTopK THEN 5 ELSE top_k
                      n == IF k < Len(points) THEN k ELSE Len(points)
                  IN  /\ out'.code = 200
                      /\ Len(out'.body.sources) = n
                      /\ \A i \in 1..n :
                            LET pt == points[ranking[i]]
                                src == out'.body.sources[i]
                            IN  /\ src.url = pt.url
                                /\ src.title = pt.title
                                /\ src.score = Len(points) - i
                                /\ src.chunk_text
                                     = [first |-> 200, of |-> pt.text, then |-> "..."]]_vars

\* C28: GET /documents answers with total the number of Documents of the
\* status asked for (of all Documents when no status or an empty one is
\* given), whatever limit and offset are, and with the Documents of at most
\* `limit` of those rows, the first `offset` skipped; no Document changes.
C28_ListTotalAndPage ==
    [][out'.op = "documents"
         => LET request == out'.body.request
                listed == out'.body.response.documents
                matching == {i \in DocIds :
                                \/ request.status \in {NULL, ""}
                                \/ documents[i].status = request.status}
                left == IF Cardinality(matching) > request.offset
                        THEN Cardinality(matching) - request.offset ELSE 0
            IN  /\ out'.code = 200
                /\ out'.body.response.total = Cardinality(matching)
                /\ Len(listed) = IF left < request.limit THEN left
                                 ELSE request.limit
                /\ \A k \in 1..Len(listed) :
                      /\ listed[k].id \in matching
                      /\ listed[k].url = documents[listed[k].id].url
                      /\ listed[k].status = documents[listed[k].id].status
                /\ \A k, m \in 1..Len(listed) :
                      listed[k].id = listed[m].id => k = m
                /\ documents' = documents]_vars

\* Two of three Documents have the status asked for and a page of one of
\* them, after the first, has been returned.
C28_SecondPageOfTwo ==
    /\ out.op = "documents"
    /\ Len(documents) = 3
    /\ out.body.request.status = "failed"
    /\ out.body.request.offset = 1
    /\ out.body.response.total = 2
    /\ Len(out.body.response.documents) = 1

\* C31: a run whose add_chunks raised (embedding, upsert, or the timeout in
\* it) ends with the commit of failed, and that commit leaves the title and
\* the chunk_count of the Document as they are; no step of the run before it
\* writes them either: a title or a chunk_count changes only in the commit
\* of completed of a run that did not raise.
C31_FailedRunKeepsCount ==
    [][/\ \A w \in Workers :
            (wpc[w] = "except" /\ wres[w].chunks > 0 /\ wpc'[w] # "except")
               => LET d == wjob[w].doc_id IN
                  /\ documents'[d].status = "failed"
                  /\ documents'[d].error_message = wres[w].error
                  /\ documents'[d].chunk_count = documents[d].chunk_count
                  /\ documents'[d].title = documents[d].title
       /\ \A i \in DocIds :
            (\/ documents'[i].chunk_count # documents[i].chunk_count
             \/ documents'[i].title # documents[i].title)
               => /\ documents'[i].status = "completed"
                  /\ \E w \in Workers :
                        /\ wpc[w] = "completed"
                        /\ wjob[w].doc_id = i
                        /\ wres[w].error = NULL
                        /\ wpc'[w] = "idle"]_vars

\* A run has ended failed on an error of add_chunks, the Document still
\* without title and chunks, and nothing is indexed for it.
C31_IndexErrorFailed ==
    \E i \in DocIds :
        /\ documents[i].status = "failed"
        /\ documents[i].error_message \in IndexErrors
        /\ documents[i].chunk_count = 0
        /\ documents[i].title = NULL
        /\ points = <<>>

\* C32: with a configuration written, _ensure_provider (run by GET /provider
\* and by POST /query) builds a provider of the configured kind and caches
\* it when the process has none or last built another kind, and otherwise
\* leaves the cached provider as it is.
C32_BuildsExactlyWhenStale ==
    [][\A p \in Procs :
         (/\ out'.op \in {"provider", "query"}
          /\ out'.proc = p
          /\ provider_config.provider \in Kinds)
            => IF \/ qs[p].provider = NULL
                  \/ provider_config.provider # qs[p].last_provider
               THEN /\ qs'[p].provider # NULL
                    /\ qs'[p].provider.kind = provider_config.provider
                    /\ qs'[p].last_provider = provider_config.provider
               ELSE qs'[p] = qs[p]]_vars

\* C33: no step of a submission, a retry, a worker run, a query or a
\* provider switch removes a Document or changes the id or the URL of one:
\* the table only grows, and every row keeps its place and its URL.
C33_DocumentsOnlyGrow ==
    [][/\ Len(documents') >= Len(documents)
       /\ \A i \in DocIds : documents'[i].url = documents[i].url]_vars

\* A Document completed by the retry of a run that had failed after its
\* upsert, a provider switched to, and a query just answered.
C33_RetriedQueriedSwitched ==
    /\ out.op = "query"
    /\ provider_config.provider \in Kinds
    /\ \E i \in DocIds :
          /\ documents[i].status = "completed"
          /\ Len(points) > documents[i].chunk_count

\* C34: a query that finds hits, with a configuration written and the
\* generation backend up, is answered with the name of the provider that
\* _ensure_provider gave it to generate the answer with.
C34_NameOfGeneratingProvider ==
    [][\A p \in Procs, top_k \in TopKs, ranking \in Rankings(Len(points)) :
         (/\ out'.op = "query"
          /\ out'.proc = p
          /\ provider_config.provider \in Kinds
          /\ points # <<>>
          /\ QueryCall(p, top_k, ranking, "up"))
            => LET e == ensure_provider(qs[p], provider_config) IN
               /\ e.error = NULL
               /\ out'.code = 200
               /\ "provider" \in DOMAIN out'.body
               /\ out'.body.provider = get_provider_name(e.qs.provider)]_vars

\* C35: a call of ingest_url whose enqueue has failed, for a new URL or for
\* the retry of a failed one, returns an error and leaves the Document
\* failed with the message that the job could not be queued.
C35_EnqueueFailureRecorded ==
    [][\A p \in Procs :
         (/\ hpc[p] \in {"enqueue_failed", "retry_enqueue"}
          /\ hpc'[p] = "idle"
          /\ job_queue' = job_queue)
            => /\ resp'[p].code = 500
               /\ documents'[hdoc[p]].status = "failed"
               /\ documents'[hdoc[p]].error_message = QueueErrorMessage]_vars

\* C36: a Document has an error_message only while its status is failed.
C36_ErrorOnlyWhenFailed ==
    \A i \in DocIds :
        documents[i].error_message # NULL => documents[i].status = "failed"

\* C37: the collection holds, for every completed Document, as many points
\* with its doc_id as its chunk_count says.
C37_PointsMatchChunkCount ==
    \A i \in DocIds :
        documents[i].status = "completed"
           => Cardinality(PointsOf(points, i)) = documents[i].chunk_count

\* C38: a completed Document has a title and at least one chunk; a Document
\* is created without title and with chunk_count 0, and keeps both until a
\* step that leaves it completed.
C38_TitleAndCountWithCompleted ==
    /\ [](\A i \in DocIds :
             documents[i].status = "completed"
                => /\ documents[i].title # NULL
                   /\ documents[i].chunk_count >= 1)
    /\ [][/\ \A i \in DOMAIN documents' \ DocIds :
                /\ documents'[i].title = NULL
                /\ documents'[i].chunk_count = 0
          /\ \A i \in DocIds :
                (/\ documents[i].title = NULL
                 /\ documents[i].chunk_count = 0
                 /\ documents'[i].status # "completed")
                   => /\ documents'[i].title = NULL
                      /\ documents'[i].chunk_count = 0]_vars

\* A page without a title element has been ingested: the Document is
\* completed with its URL for a title and the one chunk of the page.
C38_UntitledPageCompleted ==
    \E i \in DocIds :
        /\ documents[i].status = "completed"
        /\ documents[i].title = UrlText(documents[i].url)
        /\ documents[i].chunk_count = 1

====
